---- MODULE Spec2Model ----
(***************************************************************************)
(* Model of the live trivia session of App (src/unnamed/part_000): the     *)
(* game phase, the audio refs shared by all sessions, the per-session      *)
(* closure of startLiveSession (audio contexts, microphone stream,         *)
(* transport callbacks) and the playback scheduling done in onmessage.     *)
(*                                                                         *)
(* Time is counted in ticks of the output context's clock; a fragment's    *)
(* duration is a number of ticks.                                          *)
(***************************************************************************)
EXTENDS Integers, Sequences, FiniteSets, TLC

\* ------------------------------------------------------------------ bounds
MaxSessions == 2    \* startLiveSession invocations that pass the guard
MaxMsgs == 3        \* inbound transport messages, all sessions together
MaxDur == 1         \* longest decoded fragment, in clock ticks
MaxClock == 1       \* highest reading of an output context's clock
MaxQuestions == 1   \* most questions generateQuestions returns
MaxGenPending == 1  \* handleStart invocations awaiting generateQuestions
MaxChunks == 4      \* capture chunks onaudioprocess produces
MaxInput == 2       \* capture buffers are told apart by a number 0..MaxInput
MaxSamples == 2     \* longest sample sequence given to the PCM codec
SampleDen == 3      \* the samples are the fractions n / SampleDen of [-1, 1]
MaxLevel == 2       \* highest byte the analyser gives for the bin drawn
MaxVizSessions == 1 \* sessions started while the visualizer is followed
MaxVizMsgs == 2     \* messages delivered while the visualizer is followed
MaxLiveSessions == 1 \* sessions started while the sources' ends are followed
MaxLiveMsgs == 2    \* messages delivered while the sources' ends are followed

VARIABLES
  phase,             \* useState<GamePhase>
  config,            \* useState<TriviaConfig | null>: "null" or "set"
  questions,         \* useState<GeneratedQuestion[]>: its length
  error,             \* useState<string | null>
  isConnected,       \* useState(false)
  transcript,        \* useState<{role, text}[]>
  audioContextRef,   \* 0 (null) or the session whose outputCtx it holds
  streamRef,         \* 0 (null) or the session whose MediaStream it holds
  nextStartTimeRef,  \* useRef<number>(0)
  sourcesRef,        \* useRef<Set<AudioBufferSourceNode>>: indices of srcs
  mounted,           \* the component is mounted
  genPending,        \* handleStart invocations suspended at generateQuestions
  sessions,          \* one record per startLiveSession closure
  pending,           \* onmessage invocations suspended at decodeAudioData
  srcs,              \* every AudioBufferSourceNode created so far
  msgCount,          \* inbound messages delivered so far
  intrFresh,         \* an interruption was handled and no audio fragment received since
  \* the capture pipeline of one startLiveSession closure (lines 134-151)
  sessionPromise,    \* the promise ai.live.connect returned
  onaudioprocess,    \* scriptProcessor.onaudioprocess is set
  thenQueue,         \* callbacks registered on sessionPromise, not yet run
  sent,              \* the blobs handed to session.sendRealtimeInput, in order
  chunks,            \* the capture chunks produced so far, in order
  \* one use of the PCM codec
  samples,           \* the Float32Array encoded: numerators over SampleDen
  pcmBytes,          \* the bytes of its 16-bit little-endian encoding
  decoded,           \* the samples decoded from them: numerators over 0x8000
  codecPc,           \* how far the round trip has got
  \* the AudioVisualizer of the output analyser
  dataArray,         \* the Uint8Array getByteFrequencyData fills: one bin
  canvas,            \* the bars on the canvas: none, or twice the bar's height
  animationId        \* a frame is requested

\* The state of the session-level model.
appVars == <<phase, config, questions, error, isConnected, transcript,
             audioContextRef, streamRef, nextStartTimeRef, sourcesRef, mounted,
             genPending, sessions, pending, srcs, msgCount, intrFresh>>

\* The state of the capture pipeline.
captureVars == <<sessionPromise, onaudioprocess, thenQueue, sent, chunks>>

\* The state of the codec round trip.
codecVars == <<samples, pcmBytes, decoded, codecPc>>

\* The state of the visualizer.
vizVars == <<dataArray, canvas, animationId>>

\* The state of the component models, which the session-level actions hold.
detailVars == <<captureVars, codecVars, vizVars>>

vars == <<appVars, detailVars>>

\* ------------------------------------------------------------------ types
SETUP == "SETUP"
PREPARING == "PREPARING"
READY == "READY"
PLAYING == "PLAYING"
ENDED == "ENDED"

GamePhase == {SETUP, PREPARING, READY, PLAYING, ENDED}

\* sessionRef is declared and read by endSession, and assigned nowhere.
sessionRef == "null"

Max(a, b) == IF a >= b THEN a ELSE b

\* The inbound messages: parts[0] is absent, a text part or an inlineData
\* part; the data of an inlineData part decodes to an audio buffer (audio: its
\* duration, 0 when absent) or cannot be decoded (malformed); with or without
\* serverContent.interrupted.
Messages ==
  { m \in [text : BOOLEAN, audio : 0..MaxDur, malformed : BOOLEAN,
           interrupted : BOOLEAN] :
      /\ m.text \/ m.audio > 0 \/ m.malformed \/ m.interrupted
      /\ ~(m.text /\ (m.audio > 0 \/ m.malformed))
      /\ ~(m.malformed /\ m.audio > 0) }

\* ------------------------------------------------------------------ init
Init ==
  /\ phase = SETUP
  /\ config = "null"
  /\ questions = 0
  /\ error = "null"
  /\ isConnected = FALSE
  /\ transcript = <<>>
  /\ audioContextRef = 0
  /\ streamRef = 0
  /\ nextStartTimeRef = 0
  /\ sourcesRef = {}
  /\ mounted = TRUE
  /\ genPending = 0
  /\ sessions = <<>>
  /\ pending = <<>>
  /\ srcs = <<>>
  /\ msgCount = 0
  /\ intrFresh = FALSE
  /\ sessionPromise = "none"
  /\ onaudioprocess = FALSE
  /\ thenQueue = <<>>
  /\ sent = <<>>
  /\ chunks = <<>>
  /\ samples = <<>>
  /\ pcmBytes = <<>>
  /\ decoded = <<>>
  /\ codecPc = "idle"
  /\ dataArray = 0
  /\ canvas = <<>>
  /\ animationId = FALSE

\* ------------------------------------------------------------ endSession
\* streamRef.current.getTracks().forEach(track => track.stop())
StopTracks(ss, ref) ==
  [i \in DOMAIN ss |->
     IF i = ref /\ ss[i].mic = "live" THEN [ss[i] EXCEPT !.mic = "stopped"]
     ELSE ss[i]]

\* audioContextRef.current.close(): only the context the ref holds.  On a
\* context that is already closed the call returns a rejected promise, which
\* nobody awaits; nothing is thrown to the caller and the context stays closed.
CloseContext(ss, ref) ==
  [i \in DOMAIN ss |->
     IF i = ref THEN [ss[i] EXCEPT !.outCtx = "closed"] ELSE ss[i]]

\* A source node that was stopped ("stopped") or has played to its end
\* ("ended"): nothing reads its scheduling data again, so none is kept.
Dead(st) ==
  [s |-> 0, dur |-> 0, startAt |-> 0, clockAt |-> 0, recvClock |-> 0,
   fresh |-> FALSE, first |-> FALSE, stale |-> FALSE, live |-> FALSE,
   state |-> st]

\* source.stop() for every source of registry reg.
StopSources(sr, reg) ==
  [i \in DOMAIN sr |-> IF i \in reg THEN Dead("stopped") ELSE sr[i]]

\* A registry that loses one source per call instead of all of them.
ClearRegistryOne(reg) ==
  IF reg = {} THEN {} ELSE reg \ {CHOOSE i \in reg : TRUE}

\* sourcesRef.current.clear()
ClearRegistry(reg) == {}

\* What endSession reads and writes.
AudioState ==
  [sessions |-> sessions, srcs |-> srcs, sourcesRef |-> sourcesRef,
   isConnected |-> isConnected, streamRef |-> streamRef,
   audioContextRef |-> audioContextRef,
   nextStartTimeRef |-> nextStartTimeRef]

\* endSession() applied to st.  The transport session is not closed, because
\* sessionRef is null in every state (line 46 never passes its guard), the
\* refs keep what they held, and nextStartTimeRef is not written.
EndSessionOn(st) ==
  [st EXCEPT
     !.sessions = CloseContext(StopTracks(st.sessions, st.streamRef),
                               st.audioContextRef),
     !.srcs = StopSources(st.srcs, st.sourcesRef),
     !.sourcesRef = ClearRegistry(st.sourcesRef),
     !.isConnected = FALSE]

EndSession ==
  LET st == EndSessionOn(AudioState)
  IN /\ sessions' = st.sessions
     /\ srcs' = st.srcs
     /\ sourcesRef' = st.sourcesRef
     /\ isConnected' = st.isConnected
     /\ UNCHANGED <<streamRef, audioContextRef, nextStartTimeRef>>

\* ------------------------------------------------------- handleStart
\* The submit button is disabled while isLoading (phase PREPARING).
HandleStart ==
  /\ mounted
  /\ phase = SETUP
  /\ genPending < MaxGenPending
  /\ Len(sessions) < MaxSessions
  /\ config' = "set"
  /\ phase' = PREPARING
  /\ error' = "null"
  /\ genPending' = genPending + 1
  /\ UNCHANGED <<questions, isConnected, transcript, audioContextRef,
                 streamRef, nextStartTimeRef, sourcesRef, mounted, sessions,
                 pending, srcs, msgCount, intrFresh>>
  /\ UNCHANGED detailVars

\* handleStart after generateQuestions resolved with n questions.
GenerateQuestionsResolve(n) ==
  /\ mounted
  /\ genPending > 0
  /\ genPending' = genPending - 1
  /\ questions' = n
  /\ phase' = READY
  /\ UNCHANGED <<config, error, isConnected, transcript, audioContextRef,
                 streamRef, nextStartTimeRef, sourcesRef, mounted, sessions,
                 pending, srcs, msgCount, intrFresh>>
  /\ UNCHANGED detailVars

\* handleStart's catch: generateQuestions rejected.
GenerateQuestionsReject ==
  /\ mounted
  /\ genPending > 0
  /\ genPending' = genPending - 1
  /\ error' = "Failed to generate questions. Please try again."
  /\ phase' = SETUP
  /\ UNCHANGED <<config, questions, isConnected, transcript, audioContextRef,
                 streamRef, nextStartTimeRef, sourcesRef, mounted, sessions,
                 pending, srcs, msgCount, intrFresh>>
  /\ UNCHANGED detailVars

\* --------------------------------------------------- startLiveSession
\* The session record startLiveSession's closure starts with: both contexts
\* created and running, getUserMedia not yet answered, no transport, no audio
\* fragment received (heard).
NewSession ==
  [tr |-> "none", mic |-> "pending", inCtx |-> "running",
   outCtx |-> "running", clock |-> 0, capture |-> FALSE, heard |-> FALSE]

\* A guard that looks at the configuration only.
CanConnectAnyQuestions == config # "null"

\* The guard of line 75.
CanConnect == config # "null" /\ questions # 0

\* Connect pressed with no configuration or no question: early return.
StartLiveSessionReturn ==
  /\ mounted
  /\ phase = READY
  /\ ~CanConnect
  /\ UNCHANGED vars

\* Connect pressed: up to the await of getUserMedia.
StartLiveSession ==
  /\ mounted
  /\ phase = READY
  /\ CanConnect
  /\ Len(sessions) < MaxSessions
  /\ phase' = PLAYING
  /\ sessions' = Append(sessions, NewSession)
  /\ audioContextRef' = Len(sessions) + 1
  /\ UNCHANGED <<config, questions, error, isConnected, transcript, streamRef,
                 nextStartTimeRef, sourcesRef, mounted, genPending, pending,
                 srcs, msgCount, intrFresh>>
  /\ UNCHANGED detailVars

\* getUserMedia resolved: the stream is stored and ai.live.connect is called.
GetUserMediaResolve(s) ==
  /\ mounted
  /\ sessions[s].mic = "pending"
  /\ streamRef' = s
  /\ sessions' = [sessions EXCEPT ![s].mic = "live", ![s].tr = "connecting"]
  /\ UNCHANGED <<phase, config, questions, error, isConnected, transcript,
                 audioContextRef, nextStartTimeRef, sourcesRef, mounted,
                 genPending, pending, srcs, msgCount, intrFresh>>
  /\ UNCHANGED detailVars

\* A session whose failed microphone request goes on to the connect call.
MicDeniedThenConnect(x) == [x EXCEPT !.mic = "denied", !.tr = "connecting"]

\* The session record after getUserMedia rejected: the await of line 101
\* throws, so lines 102-211 (ai.live.connect among them) are skipped.
MicDenied(x) == [x EXCEPT !.mic = "denied"]

\* getUserMedia rejected: startLiveSession's catch.
GetUserMediaReject(s) ==
  /\ mounted
  /\ sessions[s].mic = "pending"
  /\ sessions' = [sessions EXCEPT ![s] = MicDenied(@)]
  /\ error' = "Microphone access denied or API error."
  /\ phase' = SETUP
  /\ UNCHANGED <<config, questions, isConnected, transcript, audioContextRef,
                 streamRef, nextStartTimeRef, sourcesRef, mounted, genPending,
                 pending, srcs, msgCount, intrFresh>>
  /\ UNCHANGED detailVars

\* ------------------------------------------------- transport callbacks
OnOpen(s) ==
  /\ mounted
  /\ sessions[s].tr = "connecting"
  /\ sessions' = [sessions EXCEPT ![s].tr = "open", ![s].capture = TRUE]
  /\ isConnected' = TRUE
  /\ UNCHANGED <<phase, config, questions, error, transcript, audioContextRef,
                 streamRef, nextStartTimeRef, sourcesRef, mounted, genPending,
                 pending, srcs, msgCount, intrFresh>>
  /\ UNCHANGED detailVars

OnClose(s) ==
  /\ mounted
  /\ sessions[s].tr \in {"connecting", "open"}
  /\ sessions' = [sessions EXCEPT ![s].tr = "closed"]
  /\ isConnected' = FALSE
  /\ UNCHANGED <<phase, config, questions, error, transcript, audioContextRef,
                 streamRef, nextStartTimeRef, sourcesRef, mounted, genPending,
                 pending, srcs, msgCount, intrFresh>>
  /\ UNCHANGED detailVars

OnError(s) ==
  /\ mounted
  /\ sessions[s].tr \in {"connecting", "open"}
  /\ error' = "Connection error."
  /\ UNCHANGED <<phase, config, questions, isConnected, transcript,
                 audioContextRef, streamRef, nextStartTimeRef, sourcesRef,
                 mounted, genPending, sessions, pending, srcs, msgCount,
                 intrFresh>>
  /\ UNCHANGED detailVars

\* ------------------------------------------------------------ onmessage
\* A transcript that grows at its head.
PrependTranscript(tr, m, seq) ==
  IF m.text THEN <<[role |-> "model", text |-> seq]>> \o tr ELSE tr

\* Lines 154-156: a text part is appended to the transcript, role model.  The
\* text of a message is told apart by the message's number.
AppendTranscript(tr, m, seq) ==
  IF m.text THEN Append(tr, [role |-> "model", text |-> seq]) ELSE tr

\* Line 161, evaluated when the fragment is received.
ClampToClock(nst, clock) == Max(nst, clock)

\* The handlers suspended at decodeAudioData when an interruption is handled:
\* their fragments were received before it (stale).
MarkStale(pd) == [k \in DOMAIN pd |-> [pd[k] EXCEPT !.stale = TRUE]]

\* The onmessage invocation of an audio fragment, suspended at line 163.
NewHandler(s, m) ==
  [s |-> s, dur |-> m.audio, interrupted |-> m.interrupted,
   recvClock |-> sessions[s].clock, fresh |-> intrFresh,
   first |-> ~sessions[s].heard, stale |-> FALSE]

\* onmessage from its first line to the await of decodeAudioData (a message
\* with an audio part) or to its end (a message without one).  When the data
\* cannot be decoded, base64ToUint8Array or decodeAudioData throws at lines
\* 163-168, after line 161; onmessage has no try, so the handler ends there
\* and lines 170-189 do not run.
OnMessage(s, m) ==
  /\ mounted
  /\ sessions[s].tr = "open"
  /\ msgCount < MaxMsgs
  /\ msgCount' = msgCount + 1
  /\ transcript' = AppendTranscript(transcript, m, msgCount + 1)
  /\ IF m.audio > 0
     THEN /\ nextStartTimeRef' = ClampToClock(nextStartTimeRef, sessions[s].clock)
          /\ pending' = Append(pending, NewHandler(s, m))
          /\ sessions' = [sessions EXCEPT ![s].heard = TRUE]
          /\ intrFresh' = FALSE
          /\ UNCHANGED <<srcs, sourcesRef>>
     ELSE IF m.malformed
     THEN /\ nextStartTimeRef' = ClampToClock(nextStartTimeRef, sessions[s].clock)
          /\ UNCHANGED <<pending, sessions, intrFresh, srcs, sourcesRef>>
     ELSE /\ sessions' = sessions
          /\ IF m.interrupted
             THEN /\ srcs' = StopSources(srcs, sourcesRef)
                  /\ sourcesRef' = ClearRegistry(sourcesRef)
                  /\ nextStartTimeRef' = 0
                  /\ pending' = MarkStale(pending)
                  /\ intrFresh' = TRUE
             ELSE UNCHANGED <<srcs, sourcesRef, nextStartTimeRef, pending,
                              intrFresh>>
  /\ UNCHANGED <<phase, config, questions, error, isConnected, audioContextRef,
                 streamRef, mounted, genPending>>
  /\ UNCHANGED detailVars

\* The source node lines 170-178 create and start for handler h: started with
\* the value nextStartTimeRef holds when the handler resumes.
NewSource(h) ==
  [s |-> h.s, dur |-> h.dur,
   startAt |-> nextStartTimeRef,
   clockAt |-> sessions[h.s].clock,
   recvClock |-> h.recvClock, fresh |-> h.fresh, first |-> h.first,
   stale |-> h.stale,
   live |-> sessions[h.s].outCtx = "running",
   state |-> "playing"]

\* onmessage from the resumption after decodeAudioData to its end.  Every
\* handler awaits the same decode, so the handlers resume in the order in
\* which they were suspended: the oldest one resumes.
DecodeResume ==
  /\ mounted
  /\ pending # <<>>
  /\ LET h == Head(pending)
         i == Len(srcs) + 1
         sr1 == Append(srcs, NewSource(h))
         reg1 == sourcesRef \cup {i}
     IN IF h.interrupted
        THEN /\ srcs' = StopSources(sr1, reg1)
             /\ sourcesRef' = ClearRegistry(reg1)
             /\ nextStartTimeRef' = 0
             /\ pending' = MarkStale(Tail(pending))
             /\ intrFresh' = TRUE
        ELSE /\ srcs' = sr1
             /\ sourcesRef' = reg1
             /\ nextStartTimeRef' = nextStartTimeRef + h.dur
             /\ pending' = Tail(pending)
             /\ UNCHANGED intrFresh
  /\ UNCHANGED <<phase, config, questions, error, isConnected, transcript,
                 audioContextRef, streamRef, mounted, genPending, sessions,
                 msgCount>>
  /\ UNCHANGED detailVars

\* When a source started at startAt with the clock at clockAt begins to play:
\* a start time in the past plays at once.
EffStart(src) == Max(src.startAt, src.clockAt)

EffEnd(src) == EffStart(src) + src.dur

\* Source i has played to its end on a running context.
PlayedOut(i) ==
  /\ srcs[i].state = "playing"
  /\ srcs[i].live
  /\ sessions[srcs[i].s].outCtx = "running"
  /\ sessions[srcs[i].s].clock >= EffEnd(srcs[i])

\* A delete that removes nothing.
DeleteNothing(reg, i) == reg

\* sourcesRef.current.delete(sourceNode)
DeleteSource(reg, i) == reg \ {i}

\* sourceNode.onended after natural completion:
\* sourcesRef.current.delete(sourceNode).
SourceEnded(i) ==
  /\ mounted
  /\ PlayedOut(i)
  /\ sourcesRef' = DeleteSource(sourcesRef, i)
  /\ srcs' = [srcs EXCEPT ![i] = Dead("ended")]
  /\ UNCHANGED <<phase, config, questions, error, isConnected, transcript,
                 audioContextRef, streamRef, nextStartTimeRef, mounted,
                 genPending, sessions, pending, msgCount, intrFresh>>
  /\ UNCHANGED detailVars

\* sourceNode.onended after stop(): the delete finds nothing to remove when
\* the registry was cleared by the code that stopped the source.
StoppedSourceEnded(i) ==
  /\ mounted
  /\ srcs[i].state = "stopped"
  /\ sourcesRef' = DeleteSource(sourcesRef, i)
  /\ UNCHANGED <<phase, config, questions, error, isConnected, transcript,
                 audioContextRef, streamRef, nextStartTimeRef, mounted,
                 genPending, sessions, pending, srcs, msgCount, intrFresh>>
  /\ UNCHANGED detailVars

\* outputCtx.currentTime advances while the context runs.  The reading is
\* only used once the transport is open, so the clock is held until then.
Tick(s) ==
  /\ mounted
  /\ sessions[s].outCtx = "running"
  /\ sessions[s].tr \in {"open", "closed"}
  /\ sessions[s].clock < MaxClock
  /\ sessions' = [sessions EXCEPT ![s].clock = @ + 1]
  /\ UNCHANGED <<phase, config, questions, error, isConnected, transcript,
                 audioContextRef, streamRef, nextStartTimeRef, sourcesRef,
                 mounted, genPending, pending, srcs, msgCount, intrFresh>>
  /\ UNCHANGED detailVars

\* ------------------------------------------------ end game, play again
\* An end-game action that sends the game back to the connect screen.
PhaseAfterEndGameReady == READY

\* Line 225.
PhaseAfterEndGame == ENDED

\* handleEndGame: endSession, then the phase.  The summary speech it plays
\* afterwards uses a context of its own and none of the state modelled here.
HandleEndGame ==
  /\ mounted
  /\ phase = PLAYING
  /\ EndSession
  /\ phase' = PhaseAfterEndGame
  /\ UNCHANGED <<config, questions, error, transcript, mounted, genPending,
                 pending, msgCount, intrFresh>>
  /\ UNCHANGED detailVars

\* The Play Again button: setPhase(SETUP), nothing else.
PlayAgain ==
  /\ mounted
  /\ phase = ENDED
  /\ phase' = SETUP
  /\ UNCHANGED <<config, questions, error, isConnected, transcript,
                 audioContextRef, streamRef, nextStartTimeRef, sourcesRef,
                 mounted, genPending, sessions, pending, srcs, msgCount,
                 intrFresh>>
  /\ UNCHANGED detailVars

\* The cleanup of the mount effect: endSession on unmount.  App is the root
\* component: once it is unmounted the page is gone, and a behaviour ends.
Unmount ==
  /\ mounted
  /\ EndSession
  /\ mounted' = FALSE
  /\ UNCHANGED <<phase, config, questions, error, transcript, genPending,
                 pending, msgCount, intrFresh>>
  /\ UNCHANGED detailVars

\* ------------------------------------------------------- specification
Next ==
  \/ HandleStart
  \/ \E n \in 0..MaxQuestions : GenerateQuestionsResolve(n)
  \/ GenerateQuestionsReject
  \/ StartLiveSessionReturn
  \/ StartLiveSession
  \/ \E s \in DOMAIN sessions : GetUserMediaResolve(s)
  \/ \E s \in DOMAIN sessions : GetUserMediaReject(s)
  \/ \E s \in DOMAIN sessions : OnOpen(s)
  \/ \E s \in DOMAIN sessions : OnClose(s)
  \/ \E s \in DOMAIN sessions : OnError(s)
  \/ \E s \in DOMAIN sessions : \E m \in Messages : OnMessage(s, m)
  \/ DecodeResume
  \/ \E i \in DOMAIN srcs : SourceEnded(i)
  \/ \E i \in DOMAIN srcs : StoppedSourceEnded(i)
  \/ \E s \in DOMAIN sessions : Tick(s)
  \/ HandleEndGame
  \/ PlayAgain
  \/ Unmount

Spec == Init /\ [][Next]_vars

\* ------------------------------------------------------ capture pipeline
\* The forwarding of microphone chunks to the transport in one closure of
\* startLiveSession: ai.live.connect returns sessionPromise, onopen installs
\* onaudioprocess, and each chunk is sent from a callback registered on the
\* promise with then.

\* The capture buffers onaudioprocess is called with.
Inputs == 0..MaxInput

\* A promise whose callbacks run newest first.
ThenQueueLifo(q, c) == <<c>> \o q

\* sessionPromise.then(cb) on a pending promise: cb joins the promise's
\* callbacks, which run in the order of their registration.
ThenQueue(q, c) == Append(q, c)

\* Line 134: ai.live.connect is called and returns the promise.
LiveConnect ==
  /\ sessionPromise = "none"
  /\ sessionPromise' = "pending"
  /\ UNCHANGED <<onaudioprocess, thenQueue, sent, chunks, appVars, codecVars, vizVars>>

\* Lines 142-150 of onopen: the handler is installed and the processor wired.
CaptureOnOpen ==
  /\ sessionPromise \in {"pending", "fulfilled"}
  /\ ~onaudioprocess
  /\ onaudioprocess' = TRUE
  /\ UNCHANGED <<sessionPromise, thenQueue, sent, chunks, appVars, codecVars, vizVars>>

\* The chunk made of capture buffer x: the blob createPcmBlob returns for it,
\* and whether it was produced before the session object was available.
Chunk(x) == [media |-> x, early |-> sessionPromise # "fulfilled"]

\* Lines 143-147: onaudioprocess with buffer x.  The handler returns as soon
\* as the callback is registered.  On a fulfilled promise the callback runs in
\* the microtask that follows the handler, before the next chunk is produced;
\* on a rejected promise it never runs.
OnAudioProcess(x) ==
  /\ onaudioprocess
  /\ Len(chunks) < MaxChunks
  /\ chunks' = Append(chunks, Chunk(x))
  /\ CASE sessionPromise = "pending" ->
            /\ thenQueue' = ThenQueue(thenQueue, Chunk(x))
            /\ sent' = sent
       [] sessionPromise = "fulfilled" ->
            /\ sent' = Append(sent, Chunk(x))
            /\ thenQueue' = thenQueue
       [] OTHER -> UNCHANGED <<thenQueue, sent>>
  /\ UNCHANGED <<sessionPromise, onaudioprocess, appVars, codecVars, vizVars>>

\* The promise is fulfilled with the session: the registered callbacks run in
\* order, each calling session.sendRealtimeInput with its blob.
SessionFulfilled ==
  /\ sessionPromise = "pending"
  /\ sessionPromise' = "fulfilled"
  /\ sent' = sent \o thenQueue
  /\ thenQueue' = <<>>
  /\ UNCHANGED <<onaudioprocess, chunks, appVars, codecVars, vizVars>>

\* The promise is rejected (the connection failed): the callbacks, which have
\* no rejection handler, are dropped.
SessionRejected ==
  /\ sessionPromise = "pending"
  /\ sessionPromise' = "rejected"
  /\ thenQueue' = <<>>
  /\ UNCHANGED <<onaudioprocess, sent, chunks, appVars, codecVars, vizVars>>

CaptureNext ==
  \/ LiveConnect
  \/ CaptureOnOpen
  \/ \E x \in Inputs : OnAudioProcess(x)
  \/ SessionFulfilled
  \/ SessionRejected

SpecCapture == Init /\ [][CaptureNext]_vars

\* ------------------------------------------------------------ PCM codec
\* The encoder behind createPcmBlob and the decoder behind decodeAudioData.
\* A sample is the fraction n / SampleDen, held as its numerator n; a decoded
\* sample is the fraction q / 0x8000, held as its numerator q.

ScalePositive == 32767   \* 0x7FFF
ScaleNegative == 32768   \* 0x8000

\* The sample sequences the codec is given.
SampleSeqs ==
  UNION { [1..n -> (-SampleDen)..SampleDen] : n \in 0..MaxSamples }

\* Clamp to [-1, 1].
Clamp(n) ==
  IF n > SampleDen THEN SampleDen ELSE IF n < -SampleDen THEN -SampleDen ELSE n

\* The 16-bit integer of a sample: clamped, scaled by 0x7FFF (by 0x8000 when
\* negative) and truncated towards zero.
Quantize(n) ==
  IF Clamp(n) < 0
  THEN -(((-Clamp(n)) * ScaleNegative) \div SampleDen)
  ELSE (Clamp(n) * ScalePositive) \div SampleDen

\* The two bytes of a 16-bit integer in two's complement.
LowByte(q) == (q % 65536) % 256
HighByte(q) == (q % 65536) \div 256

\* encode: two bytes per sample, low byte first.
createPcmBlob(x) ==
  [k \in 1..(2 * Len(x)) |->
     IF k % 2 = 1 THEN LowByte(Quantize(x[(k + 1) \div 2]))
     ELSE HighByte(Quantize(x[k \div 2]))]

\* The signed 16-bit integer at sample position i of bytes b.
Int16At(b, i) ==
  LET u == b[2 * i - 1] + 256 * b[2 * i]
  IN IF u >= 32768 THEN u - 65536 ELSE u

\* decode (one channel): each 16-bit integer divided by 0x8000, so the
\* integer is the numerator of the decoded sample.
decodeAudioData(b) == [i \in 1..(Len(b) \div 2) |-> Int16At(b, i)]

\* The codec is given the sample sequence x.
CodecInput(x) ==
  /\ codecPc = "idle"
  /\ samples' = x
  /\ codecPc' = "input"
  /\ UNCHANGED <<pcmBytes, decoded, appVars, captureVars, vizVars>>

Encode ==
  /\ codecPc = "input"
  /\ pcmBytes' = createPcmBlob(samples)
  /\ codecPc' = "encoded"
  /\ UNCHANGED <<samples, decoded, appVars, captureVars, vizVars>>

Decode ==
  /\ codecPc = "encoded"
  /\ decoded' = decodeAudioData(pcmBytes)
  /\ codecPc' = "decoded"
  /\ UNCHANGED <<samples, pcmBytes, appVars, captureVars, vizVars>>

CodecNext ==
  \/ \E x \in SampleSeqs : CodecInput(x)
  \/ Encode
  \/ Decode

SpecCodec == Init /\ [][CodecNext]_vars

\* ------------------------------------------------------------ visualizer
\* The AudioVisualizer of the output analyser (SetupScreen.tsx lines 105-169),
\* rendered while the phase is PLAYING with isActive = isConnected.

\* The bytes the analyser gives for the bin drawn.
Levels == 0..MaxLevel

\* Twice the height of the bar: dataArray[i] / 2, or 2 when not active.
BarHeight(level, isActive) == IF isActive THEN level ELSE 4

\* A frame that also resets the playback clock.
DrawAndReset(level) ==
  /\ mounted
  /\ phase = PLAYING
  /\ audioContextRef # 0
  /\ animationId' = TRUE
  /\ dataArray' = level
  /\ canvas' = <<BarHeight(level, isConnected)>>
  /\ nextStartTimeRef' = 0
  /\ UNCHANGED <<phase, config, questions, error, isConnected, transcript,
                 audioContextRef, streamRef, sourcesRef, mounted, genPending,
                 sessions, pending, srcs, msgCount, intrFresh>>
  /\ UNCHANGED <<captureVars, codecVars>>

\* One call of draw (lines 127-152), the analyser giving level: the next
\* frame is requested, the analyser is read into dataArray, the canvas is
\* cleared and the bar drawn.
Draw(level) ==
  /\ mounted
  /\ phase = PLAYING
  /\ audioContextRef # 0
  /\ animationId' = TRUE
  /\ dataArray' = level
  /\ canvas' = <<BarHeight(level, isConnected)>>
  /\ UNCHANGED <<appVars, captureVars, codecVars>>

\* The cleanup of the effect (lines 156-158) when the visualizer leaves the
\* page: the frame is cancelled; the canvas and the array go with it.
VizCleanup ==
  /\ animationId
  /\ phase # PLAYING \/ ~mounted
  /\ animationId' = FALSE
  /\ dataArray' = 0
  /\ canvas' = <<>>
  /\ UNCHANGED <<appVars, captureVars, codecVars>>

\* A step of the game, for the first sessions and messages.
VizSessionStep ==
  /\ Next
  /\ Len(sessions') <= MaxVizSessions
  /\ msgCount' <= MaxVizMsgs

VizNext ==
  \/ \E level \in Levels : Draw(level)
  \/ VizCleanup
  \/ VizSessionStep

SpecViz == Init /\ [][VizNext]_vars

\* ------------------------------------------------- the ends of the sources
\* The game under the scheduling the platform guarantees: a running output
\* context's clock keeps advancing, a decode that was started completes, and
\* the ended event of a source that has played out is dispatched.

\* A step of the game, for the first sessions and messages.
LiveStep ==
  /\ Next
  /\ Len(sessions') <= MaxLiveSessions
  /\ msgCount' <= MaxLiveMsgs

\* sourceNode.onended for a source whose end lies after the last clock reading
\* the model counts: the clock of its running context goes on past that
\* reading and reaches the source's end.
HorizonEnded(i) ==
  /\ mounted
  /\ srcs[i].state = "playing"
  /\ srcs[i].live
  /\ sessions[srcs[i].s].outCtx = "running"
  /\ sessions[srcs[i].s].clock = MaxClock
  /\ EffEnd(srcs[i]) > MaxClock
  /\ sourcesRef' = DeleteSource(sourcesRef, i)
  /\ srcs' = [srcs EXCEPT ![i] = Dead("ended")]
  /\ UNCHANGED <<phase, config, questions, error, isConnected, transcript,
                 audioContextRef, streamRef, nextStartTimeRef, mounted,
                 genPending, sessions, pending, msgCount, intrFresh>>
  /\ UNCHANGED detailVars

LiveNext ==
  \/ LiveStep
  \/ \E i \in DOMAIN srcs : HorizonEnded(i)

\* The output clock of session s advances.
ClockAdvances(s) == s \in DOMAIN sessions /\ Tick(s)

\* The ended event of source i is dispatched.
EndedDispatched(i) ==
  i \in DOMAIN srcs /\ (SourceEnded(i) \/ HorizonEnded(i))

SpecLive ==
  /\ Init
  /\ [][LiveNext]_vars
  /\ \A s \in 1..MaxLiveSessions : WF_vars(ClockAdvances(s))
  /\ \A i \in 1..MaxLiveMsgs : WF_vars(EndedDispatched(i))
  /\ WF_vars(DecodeResume)

\* ---------------------------------------------------------------- claims
\* The sources that are playing or scheduled to play.
Playing == {i \in DOMAIN srcs : srcs[i].state = "playing"}

\* An interruption is handled in this step: by a message without audio, or
\* at the end of a handler that resumed after its decode.
InterruptStep ==
  \/ \E s \in DOMAIN sessions : \E m \in Messages :
       m.interrupted /\ m.audio = 0 /\ ~m.malformed /\ OnMessage(s, m)
  \/ pending # <<>> /\ Head(pending).interrupted /\ DecodeResume

\* The source was given a start time that is a reading of the output clock
\* taken between the receipt of its fragment and its start.
StartedAtClock(src) ==
  src.recvClock <= src.startAt /\ src.startAt <= src.clockAt

\* C1: every source is started at max(nextStartTime, output clock) as both are
\* when the source is started (startAt is the value of nextStartTime then), so
\* no source is given a start time earlier than the clock.
C1_StartIsMaxOfNextStartAndClock ==
  \A i \in Playing : srcs[i].startAt = Max(srcs[i].startAt, srcs[i].clockAt)

\* C2: the playback intervals of any two sources of one running context that
\* have not been stopped are disjoint.
C2_NoOverlap ==
  \A i, j \in Playing :
    (i # j /\ srcs[i].live /\ srcs[j].live /\ srcs[i].s = srcs[j].s)
      => (EffEnd(srcs[i]) <= EffStart(srcs[j]) \/ EffEnd(srcs[j]) <= EffStart(srcs[i]))

\* C3: handling an interruption stops every registered source, empties the
\* registry and sets nextStartTime to 0; and the first fragment received after
\* an interruption is scheduled at the output clock's time, not later.
C3_InterruptResets ==
  [][ /\ InterruptStep =>
           /\ sourcesRef' = {}
           /\ nextStartTimeRef' = 0
           /\ \A i \in sourcesRef : srcs'[i].state = "stopped"
      /\ \A i \in DOMAIN srcs' :
           (srcs'[i].state = "playing" /\ srcs'[i].fresh) => StartedAtClock(srcs'[i])
    ]_vars

\* C4: no source of a fragment received before a handled interruption is
\* playing or registered.
C4_NoStaleSource ==
  \A i \in DOMAIN srcs : (i \in sourcesRef \/ i \in Playing) => ~srcs[i].stale

\* The reading of the output clock audioContextRef holds.
CurrentClock == IF audioContextRef = 0 THEN 0 ELSE sessions[audioContextRef].clock

\* C5: ending the session stops every registered source, empties the registry
\* and resets nextStartTime to 0 or to the clock; and the first fragment of a
\* session is scheduled at that session's clock time.
C5_ShutdownResets ==
  [][ /\ (HandleEndGame \/ Unmount) =>
           /\ sourcesRef' = {}
           /\ \A i \in sourcesRef : srcs'[i].state = "stopped"
           /\ nextStartTimeRef' \in {0, CurrentClock'}
      /\ \A i \in DOMAIN srcs' :
           (srcs'[i].state = "playing" /\ srcs'[i].first) => StartedAtClock(srcs'[i])
    ]_vars

Connected(s) ==
  /\ phase = PLAYING
  /\ isConnected
  /\ audioContextRef = s
  /\ sessions[s].tr = "open"

\* The capture and playback resources of session record x are released.
Released(x) ==
  /\ x.mic # "live"
  /\ x.inCtx = "closed"
  /\ x.outCtx = "closed"

\* Every session's resources are released and its transport is closed.
AllReleased ==
  \A s \in DOMAIN sessions :
    Released(sessions[s]) /\ sessions[s].tr \in {"none", "closed"}

\* C7: when the transport of the connected session closes, the phase becomes
\* ENDED and the session's microphone, contexts and sources are released.
C7_CloseEndsSession ==
  [][ \A s \in DOMAIN sessions :
        (Connected(s) /\ OnClose(s)) =>
           /\ phase' = ENDED
           /\ Released(sessions'[s])
           /\ sourcesRef' = {}
    ]_vars

\* C8: when the transport of the session being played reports an error, an
\* error message is set and the phase becomes ENDED.
C8_ErrorEndsSession ==
  [][ \A s \in DOMAIN sessions :
        (phase = PLAYING /\ audioContextRef = s /\ OnError(s)) =>
           (error' # "null" /\ phase' = ENDED)
    ]_vars

\* C9: the end-game action moves the phase to ENDED with every session's
\* microphone stopped, contexts closed and transport closed, and they stay so
\* while the phase is ENDED.
C9_EndGameReleasesAll ==
  [][ /\ HandleEndGame => (phase' = ENDED /\ AllReleased')
      /\ (phase = ENDED /\ phase' = ENDED /\ AllReleased) => AllReleased'
    ]_vars

\* The order of the lifecycle.
Rank(p) ==
  CASE p = SETUP -> 0
    [] p = PREPARING -> 1
    [] p = READY -> 2
    [] p = PLAYING -> 3
    [] p = ENDED -> 4

\* C10 as stated: the phase only moves forward in the order SETUP, PREPARING,
\* READY, PLAYING, ENDED, and ENDED is left only for SETUP.
C10_OnlyForward ==
  [][ phase' # phase =>
        \/ Rank(phase') > Rank(phase)
        \/ (phase = ENDED /\ phase' = SETUP)
    ]_vars

\* The error messages of the two catch blocks.
FailureMessages ==
  {"Failed to generate questions. Please try again.",
   "Microphone access denied or API error."}

\* C10 as amended: every change of phase is a step forward to the next phase
\* of the order, a restart at SETUP from ENDED, a return to SETUP with the
\* error message of a failed question generation or a failed session start,
\* or a move to READY by a question generation that completes.
C10_Transitions ==
  [][ phase' # phase =>
        \/ Rank(phase') = Rank(phase) + 1
        \/ (phase = ENDED /\ phase' = SETUP)
        \/ (phase' = SETUP /\ error' \in FailureMessages)
        \/ (phase' = READY /\ genPending' = genPending - 1)
    ]_vars

\* C10 witness: a session start failed while the game was past SETUP and the
\* catch block took the phase back to SETUP.
C10_Witness ==
  /\ phase = SETUP
  /\ error = "Microphone access denied or API error."
  /\ \E s \in DOMAIN sessions : sessions[s].mic = "denied"

\* C11: when the microphone request of a session start fails, an error
\* message is set, and the transport of a session whose microphone request
\* failed is never opened (no connect call is made for it).
C11_NoConnectAfterMicFailure ==
  [][ /\ \A s \in DOMAIN sessions : GetUserMediaReject(s) => error' # "null"
      /\ \A s \in DOMAIN sessions' :
           sessions'[s].mic = "denied" => sessions'[s].tr = "none"
    ]_vars

\* C11 witness: the first attempt failed at the microphone and has no
\* transport, while a later attempt has connected.
C11_Witness ==
  \E s, t \in DOMAIN sessions :
    /\ sessions[s].mic = "denied"
    /\ sessions[s].tr = "none"
    /\ sessions[t].tr = "open"

\* C12: on a failed session start and on a transport error of the session
\* being played, the session's microphone is stopped, its contexts are closed
\* and the registry is empty by the time the error or the phase is set.
C12_TeardownBeforeStateChange ==
  [][ \A s \in DOMAIN sessions :
        (\/ GetUserMediaReject(s)
         \/ (phase = PLAYING /\ audioContextRef = s /\ OnError(s))) =>
           (Released(sessions'[s]) /\ sourcesRef' = {})
    ]_vars

\* C13: while the connection is not failed, the chunks sent followed by the
\* chunks queued on the promise are exactly the chunks produced, in the order
\* of production (each once, none dropped, none overtaken); nothing stays
\* queued once the session object is available; and a chunk can be produced
\* whenever the handler is installed, whatever is still unsent.
C13_ChunksSentOnceInOrder ==
  /\ sessionPromise \in {"pending", "fulfilled"} => sent \o thenQueue = chunks
  /\ sessionPromise = "fulfilled" => thenQueue = <<>>
  /\ (onaudioprocess /\ Len(chunks) < MaxChunks) =>
       \A x \in Inputs : ENABLED OnAudioProcess(x)

\* C13 witness: two different chunks were produced and queued before the
\* session object was available, a third after it, and all three were sent.
C13_Witness ==
  /\ sessionPromise = "fulfilled"
  /\ Len(sent) >= 3
  /\ sent[1].early /\ sent[2].early /\ ~sent[3].early
  /\ sent[1].media # sent[2].media

\* C14: every message with a text part adds exactly one entry, of role model
\* and with that text, at the end of the transcript; a message without text
\* adds none; and no step changes or removes an entry the transcript holds.
C14_TranscriptAppendOnly ==
  [][ /\ msgCount' # msgCount =>
           \A s \in DOMAIN sessions : \A m \in Messages :
             OnMessage(s, m) =>
               transcript' = IF m.text
                             THEN transcript \o <<[role |-> "model", text |-> msgCount']>>
                             ELSE transcript
      /\ Len(transcript') \in {Len(transcript), Len(transcript) + 1}
      /\ SubSeq(transcript', 1, Len(transcript)) = transcript
    ]_vars

\* C14 witness: two text fragments were received and are in the transcript
\* in the order of their receipt.
C14_Witness ==
  /\ Len(transcript) >= 2
  /\ transcript[1].role = "model"
  /\ transcript[1].text < transcript[2].text

\* C15: when a session is started, the transcript is empty: it holds no entry
\* of an earlier session.
C15_TranscriptPerSession ==
  [][ StartLiveSession => transcript' = <<>> ]_vars

\* C16: a message whose audio data cannot be decoded registers no source and
\* leaves the phase, the connected flag and the suspended handlers as they
\* are, and its interruption flag is still handled: the registry is emptied
\* and nextStartTime set to 0.
C16_DecodeFailureLocal ==
  [][ msgCount' # msgCount =>
        \A s \in DOMAIN sessions : \A m \in Messages :
          (m.malformed /\ OnMessage(s, m)) =>
             /\ Len(srcs') = Len(srcs)
             /\ phase' = phase /\ isConnected' = isConnected
             /\ pending' = pending
             /\ m.interrupted => (sourcesRef' = {} /\ nextStartTimeRef' = 0)
    ]_vars

\* C17: the registry holds exactly the sources that were started and have
\* neither ended (their completion was notified) nor been stopped; and
\* deleting a source that has ended or was stopped leaves the registry as it
\* is, so a late completion notification changes nothing.
C17_RegistryExact ==
  /\ sourcesRef = {i \in DOMAIN srcs : srcs[i].state = "playing"}
  /\ \A i \in DOMAIN srcs :
       srcs[i].state \in {"stopped", "ended"} => sourcesRef \ {i} = sourcesRef

\* C17 witness: one source has played to its end and was removed, one was
\* stopped by an interruption, and a third is registered.
C17_Witness ==
  \E i, j, k \in DOMAIN srcs :
    /\ srcs[i].state = "ended"
    /\ srcs[j].state = "stopped"
    /\ srcs[k].state = "playing"
    /\ sourcesRef = {k}

\* C18: a session (its audio contexts, and with them its microphone request
\* and transport) is created only in a state with a configuration and at
\* least one question; without them a step creates no session, leaves
\* audioContextRef as it is and does not move the phase to PLAYING.
C18_ConnectNeedsGame ==
  [][ /\ StartLiveSession => (config # "null" /\ questions > 0)
      /\ ~(config # "null" /\ questions > 0) =>
           /\ Len(sessions') = Len(sessions)
           /\ audioContextRef' = audioContextRef
           /\ phase' = PLAYING => phase = PLAYING
    ]_vars

\* C18 witness: after a game that connected, a new question generation
\* returned no question and the connect screen is shown: a connect request
\* here is refused.
C18_Witness ==
  /\ phase = READY
  /\ config # "null"
  /\ questions = 0
  /\ Len(sessions) = 1
  /\ sessions[1].tr = "open"

\* The distance between sample n / SampleDen and decoded sample q / 0x8000,
\* as a multiple of 1 / (SampleDen * 0x8000).
RoundTripError(n, q) ==
  IF n * ScaleNegative >= q * SampleDen
  THEN n * ScaleNegative - q * SampleDen
  ELSE q * SampleDen - n * ScaleNegative

\* C19: the encoding has two bytes per sample; decoding it gives as many
\* samples as were encoded, each within 1/32767 of the sample encoded; and a
\* sequence of zeros encodes to zero bytes and decodes to zeros.
C19_RoundTrip ==
  /\ codecPc \in {"encoded", "decoded"} => Len(pcmBytes) = 2 * Len(samples)
  /\ codecPc = "decoded" =>
       /\ Len(decoded) = Len(samples)
       /\ \A i \in DOMAIN samples :
            RoundTripError(samples[i], decoded[i]) * 32767 <= SampleDen * 32768
       /\ (\A i \in DOMAIN samples : samples[i] = 0) =>
            /\ \A k \in DOMAIN pcmBytes : pcmBytes[k] = 0
            /\ \A i \in DOMAIN decoded : decoded[i] = 0

\* C20: a frame of the visualizer leaves the source registry and the sources,
\* nextStartTime, the phase and connected flag, the transcript, the sessions
\* (contexts, microphone, transport), the suspended handlers and the capture
\* pipeline as they are, in every state in which it runs.
C20_DrawReadsOnly ==
  [][ (\E level \in Levels : Draw(level)) =>
        UNCHANGED <<sourcesRef, srcs, nextStartTimeRef, phase, isConnected,
                    transcript, sessions, pending, streamRef, audioContextRef,
                    captureVars>>
    ]_vars

\* C20 witness: a frame was drawn, showing a signal, while a source is
\* registered and the playback clock has advanced.
C20_Witness ==
  /\ animationId
  /\ canvas = <<dataArray>> /\ dataArray > 0
  /\ sourcesRef # {}
  /\ nextStartTimeRef > 0
  /\ isConnected

\* C21: the connected flag is set only while the phase is PLAYING.
C21_ConnectedOnlyPlaying == isConnected => phase = PLAYING

\* C22: while the phase stays ENDED no source is created or registered and
\* nextStartTime does not change, so the registry stays empty; and no session
\* keeps a capture handler that sends chunks to an open transport.
C22_EndedInert ==
  [][ (phase = ENDED /\ phase' = ENDED) =>
        /\ Len(srcs') = Len(srcs)
        /\ sourcesRef' = {}
        /\ nextStartTimeRef' = nextStartTimeRef
        /\ \A s \in DOMAIN sessions' :
             ~(sessions'[s].capture /\ sessions'[s].tr = "open")
    ]_vars

\* C23: every source that is in the registry is eventually out of it.
C23_EventuallyRemoved ==
  \A i \in 1..MaxLiveMsgs : (i \in sourcesRef) ~> (i \notin sourcesRef)

====
